---- MODULE Spec2Model ----
(***************************************************************************)
(* The scan-and-report pipeline of AccessScan: the POST /api/scans and     *)
(* POST /api/lighthouse-scans handlers of server/routes.ts, the scans      *)
(* table behind server/storage.ts, and the scanner service the handlers    *)
(* call (two implementations of it exist in the repository, part_002 and   *)
(* part_003; which one "./services/scanner" resolves to is fixed at        *)
(* start-up and modelled by the variable scanner).                         *)
(*                                                                         *)
(* Beside the pipeline, whose specification is Spec, the module has the    *)
(* parts of it that are looked at on their own: the fetch loop (FetchSpec),*)
(* captureScreenshot (ShotSpec), the documents of the report renderers     *)
(* (RenderSpec) and the page layout of generateReport (LayoutSpec), the    *)
(* rejections of the handlers (HandlerSpec), runLighthouseScan             *)
(* (LighthouseSpec) and saveReportSettings (SettingsSpec).                 *)
(*                                                                         *)
(* Strings that the code builds by concatenation are sequences of their    *)
(* fragments; JavaScript null is the empty sequence where a string is      *)
(* expected.                                                               *)
(***************************************************************************)
EXTENDS Integers, Sequences, FiniteSets, TLC

VARIABLES scanner, now, scans, resp, task, cap, doc, req, settings, lh

vars == <<scanner, now, scans, resp, task, cap, doc, req, settings, lh>>

\* ------------------------------------------------------------------ bounds
MaxScans == 2
MaxClock == 1

MaxViolations == 12
MaxModerate == 6
MaxNodes == 5

MaxEntries == 8
MaxPasses == 6

MaxSaves == 3
MaxRuns == 2

\* ------------------------------------------------------------- input sets
Scanners == {"part_002", "part_003"}
Users == {1}
Urls == {"test", "test-sample", "test-accessible", "example.com"}
ErrTexts == {"ETIMEDOUT", "boom"}
Kinds == {"axe", "lighthouse"}

\* ------------------------------------------------------------ null values
NULL == <<>>
UNDEFINED == <<"undefined">>
NoTime == "null"
\* The value of the column default now() of scans.created_at (schema.ts 17).
DefaultNow == "now()"

\* ----------------------------------------------------------- scan results
Rule(id, impact) == [id |-> id, impact |-> impact]

ScanResult(v, p, inc, err) ==
  [present |-> TRUE, violations |-> v, passes |-> p, incomplete |-> inc, error |-> err,
   screenshot |-> UNDEFINED]

NoResults ==
  [present |-> FALSE, violations |-> <<>>, passes |-> <<>>, incomplete |-> <<>>,
   error |-> NULL, screenshot |-> UNDEFINED]

\* The base64 text of a captured image (part_003 266 / part_002 155).
base64Screenshot == <<"base64">>

\* What axe.run can report for a page: the three lists of the result object.
AxeOutcomes ==
  { ScanResult(<<>>, <<Rule("html-lang", "serious")>>, <<>>, NULL),
    ScanResult(<<Rule("label", "critical"), Rule("region", "moderate")>>,
               <<Rule("document-title", "moderate")>>,
               <<Rule("color-contrast", "serious")>>, NULL) }

\* routes.ts 39: the orchestrator's list of reserved identifiers.
isTestPage(url) == url \in {"test", "test-sample", "test-accessible"}

\* part_003 294-300 / part_002 166: scanWebsite's own test for a reserved identifier.
IsTestUrl(impl, url) ==
  IF impl = "part_003"
  THEN url = "test-sample" \/ url = "test" \/ url = "test-accessible"
  ELSE url \in {"test", "test-sample", "test-accessible"}

\* routes.ts 54-65: the canned result used when a test page cannot be scanned.
SampleResultsBad ==
  ScanResult(<<Rule("image-alt", "critical")>>,
             <<Rule("document-title", "moderate"), Rule("html-lang", "serious")>>,
             <<>>, NULL)

SampleResults ==
  ScanResult(<<Rule("image-alt", "critical"), Rule("color-contrast", "serious")>>,
             <<Rule("document-title", "moderate"), Rule("html-lang", "serious")>>,
             <<>>, NULL)

\* routes.ts 69-79: the error result built from the message of scanError.
ErrorResultsBad(errorMessage) == ScanResult(<<>>, <<>>, <<>>, NULL)

ErrorResults(errorMessage) ==
  ScanResult(<<>>, <<>>, <<>>, <<"Failed to scan website: ">> \o errorMessage)

\* part_002 279-286: scanWebsite's own error result, carrying error.message.
InternalErrorResults(message) == ScanResult(<<>>, <<>>, <<>>, message)

\* routes.ts 48-83: the catch around scanWebsite.
OnScanError(url, errorMessage) ==
  IF isTestPage(url) THEN SampleResults ELSE ErrorResults(errorMessage)

\* ---------------------------------------------------------------- messages
maxFetchAttempts == 3

\* part_003 302-305, for a target written without a scheme.
NormalizeUrl(url) == <<"https://", url>>

\* part_003 451-454 (and 438-441): the catch that wraps and rethrows.
Wrap(msg) == <<"Accessibility scan failed: ">> \o msg

\* part_003 351
FetchFailedMsgBad(url, e) ==
  <<"Failed to fetch ">> \o NormalizeUrl(url) \o
  <<" after ", ToString(maxFetchAttempts), " attempts">>

FetchFailedMsg(url, e) ==
  <<"Failed to fetch ">> \o NormalizeUrl(url) \o
  <<" after ", ToString(maxFetchAttempts), " attempts: ", e>>

\* part_003 373
DomFailedMsg(e) == <<"Failed to parse website HTML: ", e>>

\* part_003 397 / 414
AxeFailedMsg(how, e) ==
  IF how = "callback" THEN <<"Failed to run accessibility scan: ", e>>
  ELSE <<"Failed to execute accessibility scan">>

\* part_003 56, 77, 82 / part_002 63-66: what a failing scanTestPage throws.
TestPageFailedMsg(impl, how, e) ==
  IF impl = "part_002" THEN <<e>>
  ELSE IF how = "load" THEN <<"Test page scan failed: ", e>>
  ELSE IF how = "callback" THEN <<"Failed to run accessibility scan: ", e>>
  ELSE <<"Failed to execute accessibility scan on test page">>

\* ------------------------------------------------------------- the fetcher
\* How one fetch of the target can end: a 2xx response with a body, a 2xx
\* response with an empty body, a response that is not 2xx, a network error.
FetchOutcomes == {"ok", "empty", "http", "network"}

\* part_003 334-336 / part_002 219-220: the error made from a response that
\* is not ok (for the status 503).
HttpErrorMsg(impl) ==
  IF impl = "part_003" THEN "HTTP error! Status: 503"
  ELSE "HTTP 503: Service Unavailable"

\* part_003 334-345 / part_002 215-225: whether the attempt leaves the loop
\* with the page. part_003 also wants a body that is not empty.
AttemptOkBad(impl, out) == out \in {"ok", "empty"}

AttemptOk(impl, out) ==
  IF impl = "part_003" THEN out = "ok" ELSE out \in {"ok", "empty"}

\* part_003 335, 344, 346 / part_002 220, 224: the message of the error
\* that a failed attempt leaves behind; e is the text of a network error.
AttemptError(impl, out, e) ==
  CASE out = "network" -> e
    [] out = "http" -> HttpErrorMsg(impl)
    [] out = "empty" -> "Received empty response"

\* The text of the body that the loop hands on (htmlContent / html).
BodyOf(out) == IF out = "empty" THEN "empty" ELSE "page"

\* --------------------------------------------------------------- fixtures
\* part_003 294-300 / part_002 169-182: the argument of scanTestPage, as
\* path segments (a leading slash is an empty first segment).
TestPagePathBad(impl, url) ==
  IF impl = "part_003" THEN <<"", "test-pages", "sample.html">>
  ELSE <<"test-pages", "sample.html">>

TestPagePath(impl, url) ==
  IF impl = "part_003"
  THEN IF url = "test-sample" \/ url = "test"
       THEN <<"", "test-pages", "sample.html">>
       ELSE <<"", "test-pages", "accessible.html">>
  ELSE CASE url \in {"test", "test-sample"} -> <<"test-pages", "sample.html">>
         [] url = "test-accessible" -> <<"test-pages", "accessible.html">>
         [] OTHER -> <<"test-pages", "index.html">>

\* part_003 21 / part_002 21: path.join(cwd, 'server', testPagePath.replace(/^\//, '')).
FullPath(testPagePath) ==
  <<"cwd", "server">> \o
    (IF Head(testPagePath) = "" THEN Tail(testPagePath) ELSE testPagePath)

NoFixture == <<>>

\* ------------------------------------------------------------ screenshots
\* How a call of captureScreenshot can settle: with the base64 text, with
\* null, or (part_002 156-159, the close in its finally block is not
\* guarded) by rejecting.
ShotOutcomes(impl) ==
  IF impl = "part_002" THEN {"data", "null", "reject"} ELSE {"data", "null"}

\* part_003 436 / part_002 270: screenshot: screenshot || undefined.
WithScreenshot(results, screenshot) ==
  [results EXCEPT !.screenshot = IF screenshot = NULL THEN UNDEFINED ELSE screenshot]

\* ------------------------------------------------------------ report paths
\* path.join(process.cwd(), "reports", `<prefix><Date.now()>.pdf`): the
\* directory and the file name of the path.
ReportPath(prefix, t) ==
  [dir |-> <<"cwd", "reports">>, base |-> <<prefix, ToString(t), ".pdf">>]

NoPath == [dir |-> <<>>, base |-> <<>>]

\* path.basename
Basename(p) == p.base

\* routes.ts 88, 102, 158
ReportUrlBad(reportPath) == <<"/reports/">> \o reportPath.dir \o reportPath.base

ReportUrl(reportPath) == <<"/reports/">> \o Basename(reportPath)

\* --------------------------------------------------------------- the table
\* storage.ts 47-73: the row inserted and returned by createScan.
NewScanBad(id, userId, url) ==
  [id |-> id, userId |-> userId, url |-> url, status |-> "completed",
   reportUrl |-> NULL, createdAt |-> DefaultNow]

NewScan(id, userId, url) ==
  [id |-> id, userId |-> userId, url |-> url, status |-> "pending",
   reportUrl |-> NULL, createdAt |-> DefaultNow]

\* storage.ts 95-100: set({status, reportUrl}) leaves a column alone when its
\* value is undefined.
updateScanStatusByUrl(rows, scanId, status, reportUrl) ==
  [r \in DOMAIN rows |->
     IF \E q \in DOMAIN rows :
          /\ rows[q].id = scanId
          /\ rows[q].url = rows[r].url /\ rows[q].userId = rows[r].userId
     THEN [rows[r] EXCEPT !.status = status,
                          !.reportUrl = IF reportUrl = UNDEFINED THEN @ ELSE reportUrl]
     ELSE rows[r]]

updateScanStatusBad(rows, scanId, status, reportUrl) ==
  [r \in DOMAIN rows |->
     [rows[r] EXCEPT !.status = status,
                     !.reportUrl = IF reportUrl = UNDEFINED THEN @ ELSE reportUrl]]

updateScanStatus(rows, scanId, status, reportUrl) ==
  [r \in DOMAIN rows |->
     IF rows[r].id = scanId
     THEN [rows[r] EXCEPT !.status = status,
                          !.reportUrl = IF reportUrl = UNDEFINED THEN @ ELSE reportUrl]
     ELSE rows[r]]

\* -------------------------------------------------------------- task state
\* History: the step of the scan that failed and the text of its error.
NoFail == [step |-> "none", cause |-> ""]

Fail(step, cause) == [step |-> step, cause |-> cause]

NoScan == [NewScan(0, 0, "") EXCEPT !.createdAt = NoTime]

NoResp == [code |-> 0, body |-> NoScan, scanType |-> "undefined"]

IdleTask ==
  [pc |-> "none", kind |-> "axe", url |-> "", scan |-> NoScan,
   results |-> NoResults, fail |-> NoFail, attempts |-> 0, lastError |-> NULL,
   html |-> "none", fixture |-> NoFixture, shotCalls |-> 0,
   reportPath |-> NoPath, reportArg |-> NoResults, reportCalls |-> 0,
   reportErr |-> "none", basicCalls |-> 0, basicErr |-> "none", upd |-> <<>>,
   shot |-> "none", file |-> "none"]

ScanIds == 1..MaxScans

\* A call of captureScreenshot: where it is, the state of the browser it
\* launched, the value its try block returned, and how its promise settled.
IdleCapture ==
  [pc |-> "idle", browser |-> "none", ret |-> NULL, outcome |-> "pending",
   launches |-> 0, closeCalls |-> 0, failedAt |-> "none"]

NoCaptures == [i \in ScanIds |-> IdleCapture]

\* No report is being rendered.
NoDoc == [pc |-> "none"]

\* No request has been rejected.
NoReq == [code |-> 0, kind |-> "none", authenticated |-> FALSE, valid |-> FALSE]

\* A call of storage.saveReportSettings: its arguments, what its select
\* found, the id of the row it returned, and the status of the response.
SaveIds == 1..MaxSaves

IdleSave ==
  [pc |-> "idle", userId |-> 0, companyName |-> "", existing |-> FALSE,
   ret |-> 0, code |-> 0]

\* The report_settings table is empty and no save has been called.
NoSettings == [rows |-> <<>>, calls |-> [c \in SaveIds |-> IdleSave]]

\* A call of runLighthouseScan: which implementation, where it is, the
\* Chrome instance it launched, its temporary output file, and what it
\* returned.
RunIds == 1..MaxRuns

IdleRun ==
  [impl |-> "none", pc |-> "idle", chrome |-> "none", file |-> "none",
   ret |-> "none", failedAt |-> "none"]

NoRuns == [r \in RunIds |-> IdleRun]

Init ==
  /\ scanner \in Scanners
  /\ now = 0
  /\ scans = <<>>
  /\ resp = [i \in ScanIds |-> NoResp]
  /\ task = [i \in ScanIds |-> IdleTask]
  /\ cap = NoCaptures
  /\ req = NoReq
  /\ settings = NoSettings
  /\ lh = NoRuns
  /\ doc = NoDoc

\* ------------------------------------------------------------ the handlers
Set(i, t) == task' = [task EXCEPT ![i] = t]

\* routes.ts 19-24 and 132-139: an authenticated request with a valid body
\* has its row inserted by createScan; the handler is then suspended on the
\* insert's promise.
PostScan ==
  /\ Len(scans) < MaxScans
  /\ \E kind \in Kinds, userId \in Users, url \in Urls :
       LET id == Len(scans) + 1
           row == NewScan(id, userId, url)
       IN /\ scans' = Append(scans, row)
          /\ Set(id, [IdleTask EXCEPT !.pc = "created", !.kind = kind,
                                      !.url = url, !.scan = row])
          /\ UNCHANGED <<req, settings, lh, cap, doc, scanner, now, resp>>

\* First program point of the background task of a handler.
FirstPcBad(kind, impl, url) ==
  IF kind = "lighthouse" THEN "lh_run"
  ELSE IF IsTestUrl(impl, url) THEN "testpage" ELSE "dom"

FirstPc(kind, impl, url) ==
  IF kind = "lighthouse" THEN "lh_run"
  ELSE IF IsTestUrl(impl, url) THEN "testpage" ELSE "fetch"

RespondBad(i) ==
  /\ task[i].pc = "created"
  /\ Set(i, [task[i] EXCEPT !.pc = FirstPc(task[i].kind, scanner, task[i].url)])
  /\ UNCHANGED <<req, settings, lh, cap, doc, scanner, now, scans, resp>>

\* routes.ts 27-30 and 142-148: the handler resumes, sends 201 with the
\* created scan and calls the async function of the background task, which
\* runs up to its first await.
Respond(i) ==
  /\ task[i].pc = "created"
  /\ resp' = [resp EXCEPT ![i] =
       [code |-> 201, body |-> task[i].scan,
        scanType |-> IF task[i].kind = "lighthouse" THEN "lighthouse" ELSE "undefined"]]
  /\ Set(i, [task[i] EXCEPT !.pc = FirstPc(task[i].kind, scanner, task[i].url)])
  /\ UNCHANGED <<req, settings, lh, cap, doc, scanner, now, scans>>

\* ------------------------------------------------------------- scanWebsite
\* The task of scan i once scanWebsite has settled: the call's locals
\* (fetchAttempts of part_003 311, lastError of part_002 197) are gone.
Returned(i) ==
  [task[i] EXCEPT !.pc = "report", !.attempts = 0, !.lastError = NULL, !.html = "none"]

\* routes.ts 46-47: scanWebsite resolved with results.
Scanned(i, results) ==
  Set(i, [Returned(i) EXCEPT !.results = results])

\* routes.ts 48-83: scanWebsite rejected with an Error whose message is msg.
ScanThrew(i, step, cause, msg) ==
  Set(i, [Returned(i) EXCEPT !.fail = Fail(step, cause),
                          !.results = OnScanError(task[i].url, msg)])

\* part_002 275-287: scanWebsite caught the error itself and resolved with
\* an error result.
ScanCaught(i, step, cause, msg) ==
  Set(i, [Returned(i) EXCEPT !.fail = Fail(step, cause),
                          !.results = InternalErrorResults(msg)])

\* part_003 16-84, 294-300 / part_002 16-67, 166-183: a reserved identifier
\* is scanned from its fixture file; a failure leaves scanWebsite uncaught.
ScanTestPage(i) ==
  /\ task[i].pc = "testpage"
  /\ LET path == FullPath(TestPagePath(scanner, task[i].url)) IN
     \/ \E r \in AxeOutcomes :
          Set(i, [Returned(i) EXCEPT !.results = r, !.fixture = path])
     \/ \E how \in {"load", "callback", "throw"}, e \in ErrTexts :
          Set(i, [Returned(i) EXCEPT
                    !.fail = Fail("testpage", ""), !.fixture = path,
                    !.results = OnScanError(task[i].url,
                                            TestPageFailedMsg(scanner, how, e))])
  /\ UNCHANGED <<req, settings, lh, cap, doc, scanner, now, scans, resp>>

\* part_003 314-360: one pass of the retry loop; when the loop is left with
\* the page, captureScreenshot is called (and not yet awaited).
\* part_002 200-231: one user agent of the loop, and the check after it.
\* lastError is the error of the latest failed attempt: lastError of
\* part_002 197, fetchError of part_003 346.
FetchAttempt(i) ==
  /\ task[i].pc = "fetch"
  /\ task[i].attempts < maxFetchAttempts
  /\ \E out \in FetchOutcomes, e \in ErrTexts :
       IF AttemptOk(scanner, out)
       THEN Set(i, [task[i] EXCEPT
                      !.pc = "dom", !.html = BodyOf(out),
                      !.attempts = 0, !.lastError = NULL,
                      !.shotCalls = IF scanner = "part_003" THEN @ + 1 ELSE @,
                      !.shot = IF scanner = "part_003" THEN "running" ELSE @])
       ELSE LET n == task[i].attempts + 1
                err == AttemptError(scanner, out, e)
                lastError == <<err>>
            IN IF n < maxFetchAttempts
               THEN Set(i, [task[i] EXCEPT !.attempts = n, !.lastError = lastError])
               ELSE IF scanner = "part_003"
                    THEN ScanThrew(i, "fetch", err, Wrap(FetchFailedMsg(task[i].url, err)))
                    ELSE ScanCaught(i, "fetch", err, lastError)
  /\ UNCHANGED <<req, settings, lh, cap, doc, scanner, now, scans, resp>>

\* part_003 362-375 / part_002 233-242: the DOM is built from the HTML.
BuildDom(i) ==
  /\ task[i].pc = "dom"
  /\ \/ Set(i, [task[i] EXCEPT !.pc = "axe", !.html = "none"])
     \/ \E e \in ErrTexts :
          IF scanner = "part_003"
          THEN ScanThrew(i, "dom", e, Wrap(DomFailedMsg(e)))
          ELSE ScanCaught(i, "dom", e, <<e>>)
  /\ UNCHANGED <<req, settings, lh, cap, doc, scanner, now, scans, resp>>

\* part_003 392-441 / part_002 259-273: the rules are evaluated.
RunAxe(i) ==
  /\ task[i].pc = "axe"
  /\ \/ \E r \in AxeOutcomes :
          Set(i, [task[i] EXCEPT
                    !.pc = "shot", !.results = r,
                    !.shotCalls = IF scanner = "part_002" THEN @ + 1 ELSE @,
                    !.shot = IF scanner = "part_002" THEN "running" ELSE @])
     \/ \E how \in {"callback", "throw"}, e \in ErrTexts :
          IF scanner = "part_003"
          THEN ScanThrew(i, "axe", IF how = "callback" THEN e ELSE "",
                         Wrap(Wrap(AxeFailedMsg(how, e))))
          ELSE ScanCaught(i, "axe", e, <<e>>)
  /\ UNCHANGED <<req, settings, lh, cap, doc, scanner, now, scans, resp>>

\* part_003 200-288 / part_002 118-160: the call of captureScreenshot made
\* by scanWebsite settles when its browser work is over, whether or not
\* scanWebsite is waiting for it.
ScreenshotSettles(i) ==
  /\ task[i].shot = "running"
  /\ Set(i, [task[i] EXCEPT !.shot = "settled"])
  /\ UNCHANGED <<req, settings, lh, cap, doc, scanner, now, scans, resp>>

\* part_003 425-437: the promise of captureScreenshot, started after the
\* fetch, is awaited once the rules are evaluated. part_002 264-272:
\* captureScreenshot is called and awaited after the evaluation, inside the
\* try whose catch returns the error result. The await continues once the
\* promise has settled.
AwaitScreenshot(i) ==
  /\ task[i].pc = "shot"
  /\ task[i].shot = "settled"
  /\ \E out \in ShotOutcomes(scanner), e \in ErrTexts :
       CASE out = "data" -> Scanned(i, WithScreenshot(task[i].results, base64Screenshot))
         [] out = "null" -> Scanned(i, WithScreenshot(task[i].results, NULL))
         [] out = "reject" -> ScanCaught(i, "screenshot", e, <<e>>)
  /\ UNCHANGED <<req, settings, lh, cap, doc, scanner, now, scans, resp>>

\* -------------------------------------------------------- report generation
\* routes.ts 94-107: where the catch around report generation continues.
OnReportErrorAll(url) == "basic"

OnReportErrorNone(url) == "upd106"

OnReportError(url) == IF isTestPage(url) THEN "basic" ELSE "upd106"

\* How a call of generateReport can end. part_003 806-809 waits for the
\* stream's 'finish' event only, so an error of the write stream leaves the
\* promise unsettled; part_002 409-415 rejects on it.
ReportOutcomes(impl) ==
  IF impl = "part_003" THEN {"ok", "throw", "hang"} ELSE {"ok", "throw"}

\* part_003 103 / part_002 81: the file name prefix of the basic report.
BasicPrefix(impl) == IF impl = "part_003" THEN "basic_report_" ELSE "scan_"

\* routes.ts 85-89, with generateReport of part_003 457-810 / part_002 289-420.
GenerateReport(i) ==
  /\ task[i].pc = "report"
  /\ \E out \in ReportOutcomes(scanner), t \in now..MaxClock :
       /\ now' = t
       /\ LET called == [task[i] EXCEPT !.reportArg = task[i].results,
                                        !.reportCalls = @ + 1]
          IN CASE out = "ok" ->
                    Set(i, [called EXCEPT !.pc = "upd92", !.file = "finished",
                                          !.reportPath = ReportPath("scan_", t)])
               [] out = "throw" ->
                    Set(i, [called EXCEPT !.pc = OnReportError(task[i].url),
                                          !.reportErr = "render"])
               [] out = "hang" -> Set(i, [called EXCEPT !.pc = "hung"])
  /\ UNCHANGED <<req, settings, lh, cap, doc, scanner, scans, resp>>

\* routes.ts 99-102, with generateBasicReport of part_003 94-194 / part_002 79-117.
GenerateBasicReport(i) ==
  /\ task[i].pc = "basic"
  /\ \E ok \in BOOLEAN, t \in now..MaxClock :
       /\ now' = t
       /\ LET called == [task[i] EXCEPT !.basicCalls = @ + 1]
          IN IF ok
             THEN Set(i, [called EXCEPT !.pc = "upd103", !.file = "finished",
                            !.reportPath = ReportPath(BasicPrefix(scanner), t)])
             ELSE Set(i, [called EXCEPT !.pc = "upd110", !.basicErr = "render"])
  /\ UNCHANGED <<req, settings, lh, cap, doc, scanner, scans, resp>>

\* ------------------------------------------------------------ status updates
\* The program points that call storage.updateScanStatus, named by their
\* line in routes.ts.
CompletedPcs == {"upd92", "upd103", "upd162"}
FailedPcs == {"upd106", "upd110", "upd115", "upd166"}
UpdatePcs == CompletedPcs \cup FailedPcs

\* routes.ts 92, 103, 106, 110, 115, 162, 166: the arguments of the call.
StatusArgsBad(pc, reportPath) ==
  [status |-> IF pc \in CompletedPcs THEN "completed" ELSE "failed",
   reportUrl |-> IF pc = "upd103" THEN UNDEFINED ELSE ReportUrl(reportPath)]

StatusArgs(pc, reportPath) ==
  IF pc \in CompletedPcs
  THEN [status |-> "completed", reportUrl |-> ReportUrl(reportPath)]
  ELSE [status |-> "failed", reportUrl |-> UNDEFINED]

\* routes.ts 94, 108, 113, 117, 164, 168: the catch that receives the
\* rejection of the call at pc.
OnUpdateError(pc, url) ==
  CASE pc = "upd92" -> OnReportError(url)
    [] pc = "upd103" -> "upd110"
    [] pc = "upd106" -> "upd110"
    [] pc = "upd110" -> "upd115"
    [] pc = "upd115" -> "done"
    [] pc = "upd162" -> "upd166"
    [] pc = "upd166" -> "done"

\* Where the task continues after the call at pc resolved (ok) or rejected.
AfterUpdateBad(pc, ok, url) == OnUpdateError(pc, url)

AfterUpdate(pc, ok, url) == IF ok THEN "done" ELSE OnUpdateError(pc, url)

\* routes.ts 116-119, 167-170: the async function of the task has returned
\* and its locals (results, reportPath) are gone; what stays is the record of
\* which steps ran and how they ended.
Finished(t) ==
  IF t.pc = "done"
  THEN [t EXCEPT !.results = NoResults, !.reportArg = NoResults,
                 !.reportPath = NoPath, !.fail = Fail(t.fail.step, "")]
  ELSE t

\* One call of storage.updateScanStatus by the task of scan i: the update
\* is applied and the promise resolves, or the promise rejects and the row
\* is as before.
CallUpdate(i, pc) ==
  /\ task[i].pc = pc
  /\ \E ok \in BOOLEAN :
       LET a == StatusArgs(pc, task[i].reportPath) IN
       /\ scans' = IF ok
                   THEN updateScanStatus(scans, task[i].scan.id, a.status, a.reportUrl)
                   ELSE scans
       /\ Set(i, Finished([task[i] EXCEPT
                    !.pc = AfterUpdate(pc, ok, task[i].url),
                    !.upd = Append(@, ok),
                    !.reportErr = IF pc = "upd92" /\ ~ok THEN "update" ELSE @,
                    !.basicErr = IF pc = "upd103" /\ ~ok THEN "update" ELSE @]))
  /\ UNCHANGED <<req, settings, lh, cap, doc, scanner, now, resp>>

Update92(i) == CallUpdate(i, "upd92")
Update103(i) == CallUpdate(i, "upd103")
Update106(i) == CallUpdate(i, "upd106")
Update110(i) == CallUpdate(i, "upd110")
Update115(i) == CallUpdate(i, "upd115")
Update162(i) == CallUpdate(i, "upd162")
Update166(i) == CallUpdate(i, "upd166")

\* ------------------------------------------------------ lighthouse pipeline
\* routes.ts 153, with runLighthouseScan of part_001 30-83, which catches
\* every error and resolves with a result that carries it.
RunLighthouseScan(i) ==
  /\ task[i].pc = "lh_run"
  /\ \/ Set(i, [task[i] EXCEPT !.pc = "lh_report",
                                !.results = ScanResult(<<>>, <<>>, <<>>, NULL)])
     \/ \E e \in ErrTexts :
          Set(i, [task[i] EXCEPT !.pc = "lh_report",
                                 !.fail = Fail("lighthouse", e),
                                 !.results = InternalErrorResults(<<e>>)])
  /\ UNCHANGED <<req, settings, lh, cap, doc, scanner, now, scans, resp>>

\* part_001 100, 408-410: what generateLighthouseReport has done with the
\* file when it returns the path: doc.end() has been called on the document
\* piped into the write stream, and the stream's 'finish' event is not
\* waited for.
LighthouseFile == "writing"

\* routes.ts 157-158, with generateLighthouseReport of part_001 91-422.
GenerateLighthouseReport(i) ==
  /\ task[i].pc = "lh_report"
  /\ \E ok \in BOOLEAN, t \in now..MaxClock :
       /\ now' = t
       /\ LET called == [task[i] EXCEPT !.reportArg = task[i].results,
                                        !.reportCalls = @ + 1]
          IN IF ok
             THEN Set(i, [called EXCEPT !.pc = "upd162", !.file = LighthouseFile,
                            !.reportPath = ReportPath("lighthouse_scan_", t)])
             ELSE Set(i, [called EXCEPT !.pc = "upd166", !.reportErr = "render"])
  /\ UNCHANGED <<req, settings, lh, cap, doc, scanner, scans, resp>>

\* part_001 100: the write stream of the Lighthouse report has written the
\* last chunk of the document and emits 'finish'.
ReportStreamFinishes(i) ==
  /\ task[i].file = "writing"
  /\ Set(i, [task[i] EXCEPT !.file = "finished"])
  /\ UNCHANGED <<req, settings, lh, cap, doc, scanner, now, scans, resp>>

\* ----------------------------------------------------------- specification
TaskStep(i) ==
  \/ Respond(i)
  \/ ScanTestPage(i)
  \/ FetchAttempt(i)
  \/ BuildDom(i)
  \/ RunAxe(i)
  \/ ScreenshotSettles(i)
  \/ AwaitScreenshot(i)
  \/ GenerateReport(i)
  \/ GenerateBasicReport(i)
  \/ Update92(i)
  \/ Update103(i)
  \/ Update106(i)
  \/ Update110(i)
  \/ Update115(i)
  \/ RunLighthouseScan(i)
  \/ GenerateLighthouseReport(i)
  \/ ReportStreamFinishes(i)
  \/ Update162(i)
  \/ Update166(i)

Next == PostScan \/ \E i \in ScanIds : TaskStep(i)

Spec == Init /\ [][Next]_vars

\* Every started task is scheduled again after each of its awaits: the event
\* loop runs the continuation of a settled promise.
FairSpec == Spec /\ \A i \in ScanIds : WF_vars(TaskStep(i))

\* ------------------------------------------------------------ the fetch loop
\* The fetch loops of concurrently running scans of real URLs, from the
\* point where scanWebsite has been called to the point where the loop is
\* left.
RealUrls == {url \in Urls : ~isTestPage(url)}

FetchInit ==
  /\ scanner \in Scanners
  /\ now = 0
  /\ \E url \in RealUrls, userId \in Users :
       /\ scans = [i \in ScanIds |-> NewScan(i, userId, url)]
       /\ task = [i \in ScanIds |->
                    [IdleTask EXCEPT !.pc = FirstPc("axe", scanner, url), !.kind = "axe",
                                     !.url = url, !.scan = NewScan(i, userId, url)]]
  /\ resp = [i \in ScanIds |->
               [code |-> 201, body |-> scans[i], scanType |-> "undefined"]]
  /\ cap = NoCaptures
  /\ req = NoReq
  /\ settings = NoSettings
  /\ lh = NoRuns
  /\ doc = NoDoc

FetchNext == \E i \in ScanIds : FetchAttempt(i)

\* The event loop runs the continuation of every settled fetch or timer.
FetchSpec ==
  FetchInit /\ [][FetchNext]_vars /\ \A i \in ScanIds : WF_vars(FetchAttempt(i))

\* ------------------------------------------------------- captureScreenshot
\* The steps of the calls of captureScreenshot (part_003 200-288, part_002
\* 118-160) made by concurrently running scans, one call per scan.
SetCap(i, c) ==
  /\ cap' = [cap EXCEPT ![i] = c]
  /\ UNCHANGED <<req, settings, lh, scanner, now, scans, resp, task, doc>>

\* The promise resolves with the value returned by the try or catch block.
Resolve(c, ret) ==
  [c EXCEPT !.pc = "settled", !.ret = ret,
            !.outcome = IF ret = NULL THEN "null" ELSE "data"]

\* part_003 278-287 / part_002 155-159: a return inside try or catch runs
\* the finally block first, which closes the browser if there is one.
UnwindBad(c, ret) == Resolve(c, ret)

Unwind(c, ret) ==
  IF c.browser # "none" THEN [c EXCEPT !.pc = "close", !.ret = ret]
  ELSE Resolve(c, ret)

\* A step of the try block threw: the catch returns null.
Threw(c, step) == Unwind([c EXCEPT !.failedAt = step], NULL)

\* part_003 200-214: the call, up to the launch; a Replit development
\* environment returns null at once. part_002 118-122.
CaptureScreenshot(i) ==
  /\ cap[i].pc = "idle"
  /\ \E isReplitDev \in BOOLEAN :
       IF scanner = "part_003" /\ isReplitDev
       THEN SetCap(i, Unwind(cap[i], NULL))
       ELSE SetCap(i, [cap[i] EXCEPT !.pc = "launch"])

\* part_003 234-239 / part_002 123-134: puppeteer.launch.
Launch(i) ==
  /\ cap[i].pc = "launch"
  /\ \/ SetCap(i, [cap[i] EXCEPT !.pc = "newPage", !.browser = "open",
                                  !.launches = @ + 1])
     \/ SetCap(i, Threw(cap[i], "launch"))

\* part_003 241 / part_002 136: browser.newPage.
NewPage(i) ==
  /\ cap[i].pc = "newPage"
  /\ \/ SetCap(i, [cap[i] EXCEPT !.pc = "setViewport"])
     \/ SetCap(i, Threw(cap[i], "newPage"))

\* part_003 242 / part_002 137: page.setViewport.
SetViewport(i) ==
  /\ cap[i].pc = "setViewport"
  /\ \/ SetCap(i, [cap[i] EXCEPT !.pc = "goto"])
     \/ SetCap(i, Threw(cap[i], "setViewport"))

\* part_003 249-255, 269-272 / part_002 140-143: page.goto, which ends in
\* time, with an error or with its timeout.
Goto(i) ==
  /\ cap[i].pc = "goto"
  /\ \/ SetCap(i, [cap[i] EXCEPT !.pc = "screenshot"])
     \/ SetCap(i, Threw(cap[i], "goto"))

\* part_003 259-268 / part_002 145-151: page.screenshot and the base64 text.
Screenshot(i) ==
  /\ cap[i].pc = "screenshot"
  /\ \/ SetCap(i, Unwind(cap[i], base64Screenshot))
     \/ SetCap(i, Threw(cap[i], "screenshot"))

\* part_003 279-286: browser.close in a try of its own. part_002 156-158:
\* browser.close unguarded, so its rejection replaces the returned value.
Close(i) ==
  /\ cap[i].pc = "close"
  /\ LET c == [cap[i] EXCEPT !.closeCalls = @ + 1] IN
     \/ SetCap(i, Resolve([c EXCEPT !.browser = "closed"], c.ret))
     \/ LET failed == [c EXCEPT !.browser = "unknown", !.failedAt = "close"] IN
        IF scanner = "part_003"
        THEN SetCap(i, Resolve(failed, c.ret))
        ELSE SetCap(i, [failed EXCEPT !.pc = "settled", !.outcome = "reject"])

CaptureStep(i) ==
  \/ CaptureScreenshot(i)
  \/ Launch(i)
  \/ NewPage(i)
  \/ SetViewport(i)
  \/ Goto(i)
  \/ Screenshot(i)
  \/ Close(i)

ShotNext == \E i \in ScanIds : CaptureStep(i)

ShotSpec == Init /\ [][ShotNext]_vars

\* ------------------------------------------------------ the report document
\* What generateReport writes into the PDF, as a function of its argument.
Node(html) == [html |-> html]

Violation(impact, nodes) == [id |-> "rule", impact |-> impact, nodes |-> nodes]

\* The number of items of a list whose impact is one of a set.
CountImpact(items, impacts) ==
  Cardinality({k \in DOMAIN items : items[k].impact \in impacts})

\* part_003 611-632: the compliance risk level of the executive summary.
complianceLevelBad(violations) ==
  LET totalIssues == Len(violations)
      criticalIssues == CountImpact(violations, {"critical", "serious"})
      moderateIssues == CountImpact(violations, {"moderate"})
  IN IF criticalIssues > 0 \/ totalIssues >= 10 THEN "Low"
     ELSE IF moderateIssues >= 5 \/ totalIssues >= 5 THEN "Medium"
     ELSE "High"

complianceLevel(violations) ==
  LET totalIssues == Len(violations)
      criticalIssues == CountImpact(violations, {"critical", "serious"})
      moderateIssues == CountImpact(violations, {"moderate"})
  IN IF criticalIssues > 0 \/ totalIssues > 10 THEN "Low"
     ELSE IF moderateIssues > 5 \/ totalIssues > 5 THEN "Medium"
     ELSE "High"

HasHtml(node) == node.html # NULL

\* part_002 358-373: up to three nodes are looked at, those with html are
\* printed, and a marker line follows when there are more than three.
\* part_003 704-718: the first node is printed if it has html.
Examples(impl, nodes) ==
  IF impl = "part_002"
  THEN [lines |-> SelectSeq(SubSeq(nodes, 1, IF Len(nodes) < 3 THEN Len(nodes) ELSE 3),
                            HasHtml),
        marker |-> IF Len(nodes) > 3
                   THEN <<"... and ", ToString(Len(nodes) - 3), " more elements">>
                   ELSE NULL]
  ELSE [lines |-> IF Len(nodes) > 0 /\ HasHtml(nodes[1]) THEN <<nodes[1]>> ELSE <<>>,
        marker |-> NULL]

\* The impact of a violation that axe gave none (null).
NoImpact == "null"

\* part_003 650: the order of the groups of the detailed findings.
impactOrder == <<"critical", "serious", "moderate", "minor">>

\* The positions of the items whose impact is the given one, in input order.
RECURSIVE WithImpact(_, _, _)
WithImpact(items, impact, k) ==
  IF k > Len(items) THEN <<>>
  ELSE (IF items[k].impact = impact THEN <<[group |-> impact, index |-> k]>> ELSE <<>>)
       \o WithImpact(items, impact, k + 1)

\* part_003 649-661: the violations are grouped by the impacts of
\* impactOrder, and the groups that are not empty are printed in that order.
RECURSIVE groupedViolations(_, _)
groupedViolations(violations, g) ==
  IF g > Len(impactOrder) THEN <<>>
  ELSE WithImpact(violations, impactOrder[g], 1) \o groupedViolations(violations, g + 1)

\* part_002 342-377: every violation is printed, in input order.
listedViolations(violations) ==
  [k \in DOMAIN violations |-> [group |-> "list", index |-> k]]

NoOutput ==
  [mode |-> "none", sections |-> <<>>, level |-> "none", examples |-> <<>>,
   critical |-> 0, findings |-> <<>>]

\* part_003 94-194: the document of generateBasicReport.
BasicDocument ==
  [NoOutput EXCEPT !.mode = "basic",
                   !.sections = <<"Cover", "Limited Report Information">>]

\* part_002 304-420: the header and, if results.error is set, the error
\* explanation alone; otherwise summary, violations and passes. Reading a
\* property of missing results throws.
Document002(results) ==
  IF ~results.present THEN [NoOutput EXCEPT !.mode = "throw"]
  ELSE IF results.error # NULL
  THEN [NoOutput EXCEPT !.mode = "error",
                        !.sections = <<"Header", "Scan Error", "Footer">>]
  ELSE [mode |-> "full",
        sections |-> <<"Header", "Summary">>
                     \o (IF Len(results.violations) > 0
                         THEN <<"Accessibility Violations">> ELSE <<>>)
                     \o (IF Len(results.passes) > 0 THEN <<"Tests Passed">> ELSE <<>>)
                     \o <<"Footer">>,
        level |-> "none",
        examples |-> [k \in DOMAIN results.violations |->
                        Examples("part_002", results.violations[k].nodes)],
        critical |-> 0,
        findings |-> listedViolations(results.violations)]

\* part_003 457-810: the basic document if the results are missing;
\* otherwise cover, executive summary, issues, passes, recommendations and
\* next steps. results.error is not looked at.
Document003(results) ==
  IF ~results.present THEN BasicDocument
  ELSE [mode |-> "full",
        sections |-> <<"Cover", "Executive Summary", "Accessibility Issues">>
                     \o (IF Len(results.passes) > 0
                         THEN <<"Passing Accessibility Tests">> ELSE <<>>)
                     \o (IF Len(results.incomplete) > 0
                         THEN <<"Additional Recommendations">> ELSE <<>>)
                     \o <<"Next Steps">>,
        level |-> complianceLevel(results.violations),
        examples |-> [k \in DOMAIN results.violations |->
                        Examples("part_003", results.violations[k].nodes)],
        critical |-> CountImpact(results.violations, {"critical", "serious"}),
        findings |-> groupedViolations(results.violations, 1)]

Document(impl, results) ==
  IF impl = "part_002" THEN Document002(results) ELSE Document003(results)

\* The score of a Lighthouse audit in hundredths; NullScore is a score of
\* null.
NullScore == -1
Scores == {NullScore, 0, 33, 34, 66, 67, 100}

\* part_001 210-215: the audits of the accessibility category that are
\* reported as issues.
failingAudits(audits) ==
  LET failing(audit) == audit.score # NullScore /\ audit.score < 100
  IN SelectSeq(audits, failing)

\* part_001 274-278: lower scores first, a null score before all.
SortsBefore(a, b) ==
  IF a.score = NullScore THEN TRUE
  ELSE IF b.score = NullScore THEN FALSE
  ELSE a.score <= b.score

RECURSIVE sortedAudits(_)
sortedAudits(audits) ==
  IF audits = <<>> THEN <<>>
  ELSE LET rest == sortedAudits(Tail(audits))
           a == Head(audits)
           before(b) == ~SortsBefore(a, b)
           after(b) == SortsBefore(a, b)
       IN SelectSeq(rest, before) \o <<a>> \o SelectSeq(rest, after)

\* part_001 282-293: the severity printed with an audit.
severity(score) ==
  IF score = NullScore \/ score = 0 THEN "critical"
  ELSE IF score <= 33 THEN "serious"
  ELSE IF score <= 66 THEN "moderate"
  ELSE "minor"

\* part_001 266-295: the detailed findings of generateLighthouseReport.
LighthouseDocument(results) ==
  LET shown == sortedAudits(failingAudits(results.audits))
  IN [NoOutput EXCEPT
        !.mode = "lighthouse",
        !.sections = <<"Cover", "Accessibility Score", "Detailed Findings", "Resources">>,
        !.findings = [k \in DOMAIN shown |->
                        [group |-> severity(shown[k].score), index |-> shown[k].id]]]

\* The arguments the renderer is called with: no results, an error result,
\* or a result with given numbers of violations of each impact (unrated: of
\* impact null), where the first violation has a given number of nodes (the
\* second node without html if noHtml).
Params ==
  [critical : 0..1, serious : 0..1, moderate : 0..MaxModerate,
   minor : 0..MaxViolations, unrated : 0..1, nodes : 0..MaxNodes, noHtml : BOOLEAN,
   passes : {0, 2}, kind : {"missing", "error", "result"}]

Inputs ==
  {p \in Params :
     /\ p.critical + p.serious + p.moderate + p.minor + p.unrated <= MaxViolations
     /\ p.kind # "result" =>
          /\ p.critical + p.serious + p.moderate + p.minor + p.unrated = 0
          /\ p.passes = 0
     /\ (p.critical + p.serious + p.moderate + p.minor + p.unrated = 0 \/ p.kind # "result")
          => p.nodes = 0
     /\ p.nodes < 2 => ~p.noHtml}

\* The Lighthouse results the renderer is called with: two audits of the
\* accessibility category with any scores.
LighthouseInputs ==
  {[present |-> TRUE, error |-> NULL, audits |-> <<[id |-> 1, score |-> a], [id |-> 2, score |-> b]>>] :
     a \in Scores, b \in Scores}

NodesOf(p) ==
  [k \in 1..p.nodes |-> Node(IF p.noHtml /\ k = 2 THEN NULL ELSE <<"<img>">>)]

ViolationsOf(p) ==
  [k \in 1..(p.critical + p.serious + p.moderate + p.minor + p.unrated) |->
     Violation(IF k <= p.critical THEN "critical"
               ELSE IF k <= p.critical + p.serious THEN "serious"
               ELSE IF k <= p.critical + p.serious + p.moderate THEN "moderate"
               ELSE IF k <= p.critical + p.serious + p.moderate + p.minor THEN "minor"
               ELSE NoImpact,
               IF k = 1 THEN NodesOf(p) ELSE <<>>)]

ResultsOf(p) ==
  CASE p.kind = "missing" -> NoResults
    [] p.kind = "error" -> ErrorResults(<<"boom">>)
    [] p.kind = "result" ->
         ScanResult(ViolationsOf(p), [k \in 1..p.passes |-> Rule("html-lang", "serious")],
                    <<>>, NULL)

RenderInit ==
  /\ scanner \in Scanners
  /\ now = 0
  /\ scans = <<>>
  /\ resp = [i \in ScanIds |-> NoResp]
  /\ task = [i \in ScanIds |-> IdleTask]
  /\ cap = NoCaptures
  /\ req = NoReq
  /\ settings = NoSettings
  /\ lh = NoRuns
  /\ \/ \E p \in Inputs :
          doc = [pc |-> "called", params |-> p, results |-> ResultsOf(p), out |-> NoOutput]
     \/ \E results \in LighthouseInputs :
          doc = [pc |-> "lh_called", results |-> results, out |-> NoOutput]

\* generateReport(url, results) writes its document.
RenderReport ==
  /\ doc.pc = "called"
  /\ doc' = [doc EXCEPT !.pc = "rendered", !.out = Document(scanner, doc.results)]
  /\ UNCHANGED <<req, settings, lh, scanner, now, scans, resp, task, cap>>

\* generateLighthouseReport(scanResult) writes its document.
RenderLighthouseReport ==
  /\ doc.pc = "lh_called"
  /\ doc' = [doc EXCEPT !.pc = "lh_rendered", !.out = LighthouseDocument(doc.results)]
  /\ UNCHANGED <<req, settings, lh, scanner, now, scans, resp, task, cap>>

RenderNext == RenderReport \/ RenderLighthouseReport

RenderSpec == RenderInit /\ [][RenderNext]_vars

\* ------------------------------------------------------ rejected requests
\* routes.ts 19-24, 121-128 (and 132-137, 172-179): the status of a request
\* that is not accepted. isAuthenticated is tested before the body is
\* parsed; a ZodError of the parse is answered 400, any other error of the
\* try block (the insert of createScan failed) 500.
RejectCodeBad(authenticated, valid) ==
  IF ~valid THEN 400 ELSE IF ~authenticated THEN 401 ELSE 500

RejectCode(authenticated, valid) ==
  IF ~authenticated THEN 401 ELSE IF ~valid THEN 400 ELSE 500

\* A request to POST /api/scans or POST /api/lighthouse-scans that is
\* answered with an error: the handler returns before createScan is called,
\* or createScan rejected without inserting; the async function of the
\* background task is not reached.
RejectScan ==
  /\ \E kind \in Kinds, authenticated \in BOOLEAN, valid \in BOOLEAN, inserted \in BOOLEAN :
       /\ ~(authenticated /\ valid /\ inserted)
       /\ req' = [code |-> RejectCode(authenticated, valid), kind |-> kind,
                  authenticated |-> authenticated, valid |-> valid]
  /\ UNCHANGED <<settings, lh, cap, doc, scanner, now, scans, resp, task>>

\* The handlers up to their response: requests are rejected or accepted in
\* any order, and an accepted one is answered once its insert resolved.
HandlerNext == RejectScan \/ PostScan \/ \E i \in ScanIds : Respond(i)

HandlerSpec == Init /\ [][HandlerNext]_vars

\* --------------------------------------------------------- report settings
\* POST /api/report-settings (routes.ts 201-216) for an authenticated user
\* with a valid body, and storage.saveReportSettings (storage.ts 111-139)
\* behind it, over the report_settings table, whose user_id column is
\* declared unique (schema.ts 22-33). The database is available: a statement
\* fails only when it violates the constraint.
SettingsUsers == {1, 2}
CompanyNames == {"acme", "zeta"}

SetSave(c, call) ==
  /\ settings' = [settings EXCEPT !.calls[c] = call]
  /\ UNCHANGED <<req, lh, cap, doc, scanner, now, scans, resp, task>>

\* routes.ts 205-206: the handler calls saveReportSettings, which is
\* suspended on the select of getReportSettings.
PostReportSettings(c) ==
  /\ settings.calls[c].pc = "idle"
  /\ \E userId \in SettingsUsers, companyName \in CompanyNames :
       SetSave(c, [settings.calls[c] EXCEPT !.pc = "select", !.userId = userId,
                                            !.companyName = companyName])

\* storage.ts 102-109: the rows of the user, of which the first is returned.
getReportSettings(rows, userId) ==
  {k \in DOMAIN rows : rows[k].userId = userId}

\* storage.ts 113: the select resolves and the branch is chosen.
SelectSettings(c) ==
  /\ settings.calls[c].pc = "select"
  /\ LET existingSettings == getReportSettings(settings.rows, settings.calls[c].userId)
     IN SetSave(c, [settings.calls[c] EXCEPT !.pc = "write",
                                             !.existing = existingSettings # {}])

\* storage.ts 117-124: update ... where user_id = userId.
updateReportSettings(rows, userId, companyName) ==
  [k \in DOMAIN rows |->
     IF rows[k].userId = userId
     THEN [rows[k] EXCEPT !.companyName = companyName, !.updatedAt = @ + 1]
     ELSE rows[k]]

\* storage.ts 129-135: the row of an insert; id is the next value of the
\* serial column.
NewSettings(rows, userId, companyName) ==
  [id |-> Len(rows) + 1, userId |-> userId, companyName |-> companyName,
   updatedAt |-> 0]

\* schema.ts 24: the insert is refused when the user already has a row.
UniqueUserId(rows, userId) == \A k \in DOMAIN rows : rows[k].userId # userId

\* storage.ts 115-138 and routes.ts 207-214: the update or the insert is
\* executed, and the handler answers with the returned row, or with 500
\* when the statement was rejected.
WriteSettings(c) ==
  /\ settings.calls[c].pc = "write"
  /\ LET call == settings.calls[c]
         mine == getReportSettings(settings.rows, call.userId)
     IN IF call.existing
        THEN settings' = [settings EXCEPT
               !.rows = updateReportSettings(@, call.userId, call.companyName),
               !.calls[c] = [call EXCEPT !.pc = "returned", !.code = 200,
                                         !.ret = IF mine = {} THEN 0
                                                 ELSE CHOOSE k \in mine : TRUE]]
        ELSE IF UniqueUserId(settings.rows, call.userId)
        THEN settings' = [settings EXCEPT
               !.rows = Append(@, NewSettings(@, call.userId, call.companyName)),
               !.calls[c] = [call EXCEPT !.pc = "returned", !.code = 200,
                                         !.ret = Len(settings.rows) + 1]]
        ELSE settings' = [settings EXCEPT
               !.calls[c] = [call EXCEPT !.pc = "failed", !.code = 500]]
  /\ UNCHANGED <<req, lh, cap, doc, scanner, now, scans, resp, task>>

SettingsNext ==
  \E c \in SaveIds : PostReportSettings(c) \/ SelectSettings(c) \/ WriteSettings(c)

SettingsSpec == Init /\ [][SettingsNext]_vars

\* ------------------------------------------------------- the page layout
\* The y positions at which generateReport of part_002 (314-401) places its
\* lines, for a result without error whose nodes all have html. The document
\* is of PDFKit's default size, letter, 792 points high.
PageHeight == 792

Min(a, b) == IF a < b THEN a ELSE b

\* part_002 344-347, 381-384: a new page is started when the cursor is
\* beyond the limit.
StartOf(yPosition, limit) == IF yPosition > limit THEN 50 ELSE yPosition

\* part_002 349-373: the positions of the lines of a violation with n nodes
\* whose heading is at y: heading, impact, description, and if there are
\* nodes the caption, up to three elements and the marker.
EntryLines(y, n) ==
  <<y, y + 20, y + 35>>
  \o (IF n > 0
      THEN <<y + 65>> \o [j \in 1..Min(n, 3) |-> y + 80 + 12 * (j - 1)]
           \o (IF n > 3 THEN <<y + 80 + 12 * Min(n, 3)>> ELSE <<>>)
      ELSE <<>>)

\* part_002 349-376: the cursor after the entry.
EntryEnd(y, n) ==
  y + 65 + (IF n > 0 THEN 15 + 12 * Min(n, 3) + (IF n > 3 THEN 12 ELSE 0) ELSE 0) + 20

\* part_002 386-400: the positions of the lines of the passes section: its
\* heading, the count, up to five passes and the marker.
PassesLines(y, n) ==
  <<y, y + 30>> \o [j \in 1..Min(n, 5) |-> y + 60 + 15 * (j - 1)]
  \o (IF n > 5 THEN <<y + 60 + 15 * Min(n, 5)>> ELSE <<>>)

\* generateReport has written the header and is about to write the summary:
\* yPosition is 170 (314).
LayoutInit ==
  /\ scanner = "part_002"
  /\ now = 0
  /\ scans = <<>>
  /\ resp = [i \in ScanIds |-> NoResp]
  /\ task = [i \in ScanIds |-> IdleTask]
  /\ cap = NoCaptures
  /\ req = NoReq
  /\ settings = NoSettings
  /\ lh = NoRuns
  /\ doc = [pc |-> "summary", section |-> "none", y |-> 170, start |-> 170,
            lines |-> <<>>, index |-> 0]

SetLayout(pc, section, start, lines, y, index) ==
  /\ doc' = [pc |-> pc, section |-> section, y |-> y, start |-> start,
             lines |-> lines, index |-> index]
  /\ UNCHANGED <<req, settings, lh, scanner, now, scans, resp, task, cap>>

\* part_002 327-340: the summary and, if there are violations, the heading
\* of their section.
DrawSummary ==
  /\ doc.pc = "summary"
  /\ \E violations \in BOOLEAN :
       LET y == doc.y IN
       IF violations
       THEN SetLayout("violations", "summary", y, <<y, y + 30, y + 50, y + 70, y + 110>>, y + 140, 0)
       ELSE SetLayout("passes", "summary", y, <<y, y + 30, y + 50, y + 70>>, y + 110, 0)

\* part_002 342-377: one pass of the forEach over the violations.
DrawViolation ==
  /\ doc.pc = "violations"
  /\ doc.index < MaxEntries
  /\ \E n \in 0..MaxNodes :
       LET y == StartOf(doc.y, 700)
       IN SetLayout("violations", "violation", y, EntryLines(y, n), EntryEnd(y, n),
                    doc.index + 1)

\* The forEach over the violations has ended.
EndViolations ==
  /\ doc.pc = "violations"
  /\ doc.index > 0
  /\ SetLayout("passes", doc.section, doc.start, doc.lines, doc.y, doc.index)

\* part_002 380-401: the passes section, if there are passes.
DrawPasses ==
  /\ doc.pc = "passes"
  /\ \E n \in 0..MaxPasses :
       IF n > 0
       THEN LET y == StartOf(doc.y, 650)
            IN SetLayout("footer", "passes", y, PassesLines(y, n),
                         y + 60 + 15 * Min(n, 5), doc.index)
       ELSE SetLayout("footer", doc.section, doc.start, doc.lines, doc.y, doc.index)

\* part_002 404-405: the footer.
DrawFooter ==
  /\ doc.pc = "footer"
  /\ SetLayout("ended", "footer", 750, <<750>>, doc.y, doc.index)

LayoutNext == DrawSummary \/ DrawViolation \/ EndViolations \/ DrawPasses \/ DrawFooter

LayoutSpec == LayoutInit /\ [][LayoutNext]_vars

\* --------------------------------------------------------- runLighthouseScan
\* The steps of concurrent calls of runLighthouseScan: the library
\* implementation (server/services/lighthouse.ts 25-68) launches Chrome
\* itself; the CLI implementation (part_001 30-83, the one routes.ts
\* imports) runs npx lighthouse, which writes a temporary JSON file.
SetRun(r, run) ==
  /\ lh' = [lh EXCEPT ![r] = run]
  /\ UNCHANGED <<req, settings, cap, doc, scanner, now, scans, resp, task>>

\* lighthouse.ts 61-67 / part_001 75-82: the catch block returns a result
\* that carries the error; nothing is released in it.
Caught(run, step) == [run EXCEPT !.pc = "returned", !.ret = "error", !.failedAt = step]

\* The call, up to its first await.
StartLighthouseScan(r) ==
  /\ lh[r].pc = "idle"
  /\ \E impl \in {"lib", "cli"} :
       SetRun(r, [lh[r] EXCEPT !.impl = impl,
                               !.pc = IF impl = "lib" THEN "launch" ELSE "mkdir"])

\* lighthouse.ts 35-37: chromeLauncher.launch.
LaunchChrome(r) ==
  /\ lh[r].pc = "launch"
  /\ \/ SetRun(r, [lh[r] EXCEPT !.pc = "run", !.chrome = "running"])
     \/ SetRun(r, Caught(lh[r], "launch"))

\* lighthouse.ts 48: lighthouse(url, options).
RunLighthouse(r) ==
  /\ lh[r].pc = "run"
  /\ \/ SetRun(r, [lh[r] EXCEPT !.pc = "kill"])
     \/ SetRun(r, Caught(lh[r], "run"))

\* lighthouse.ts 51-59: chrome.kill(), then the result with results.lhr.
KillChrome(r) ==
  /\ lh[r].pc = "kill"
  /\ \/ SetRun(r, [lh[r] EXCEPT !.pc = "returned", !.chrome = "killed", !.ret = "results"])
     \/ SetRun(r, Caught(lh[r], "kill"))

\* part_001 40-41: mkdir of reports/temp.
MakeTempDir(r) ==
  /\ lh[r].pc = "mkdir"
  /\ \/ SetRun(r, [lh[r] EXCEPT !.pc = "exec"])
     \/ SetRun(r, Caught(lh[r], "mkdir"))

\* part_001 48-60: npx lighthouse is executed; it exits with an error, or
\* it exits normally and has or has not written the JSON file.
ExecLighthouse(r) ==
  /\ lh[r].pc = "exec"
  /\ \/ SetRun(r, [lh[r] EXCEPT !.pc = "read", !.file = "present"])
     \/ SetRun(r, Caught(lh[r], "exists"))
     \/ SetRun(r, Caught(lh[r], "exec"))

\* part_001 63: readFileSync and JSON.parse.
ReadJson(r) ==
  /\ lh[r].pc = "read"
  /\ \/ SetRun(r, [lh[r] EXCEPT !.pc = "unlink"])
     \/ SetRun(r, Caught(lh[r], "read"))
     \/ SetRun(r, Caught(lh[r], "parse"))

\* part_001 68-74: unlinkSync, then the result with reportJson.
UnlinkJson(r) ==
  /\ lh[r].pc = "unlink"
  /\ \/ SetRun(r, [lh[r] EXCEPT !.pc = "returned", !.file = "removed", !.ret = "results"])
     \/ SetRun(r, Caught(lh[r], "unlink"))

LighthouseNext ==
  \E r \in RunIds :
    \/ StartLighthouseScan(r)
    \/ LaunchChrome(r)
    \/ RunLighthouse(r)
    \/ KillChrome(r)
    \/ MakeTempDir(r)
    \/ ExecLighthouse(r)
    \/ ReadJson(r)
    \/ UnlinkJson(r)

LighthouseSpec == Init /\ [][LighthouseNext]_vars

\* ------------------------------------------------------------------ claims
Rows == DOMAIN scans

Started(i) == task[i].pc \notin {"none", "created"}

LastOf(q) == q[Len(q)]

\* C1: the persisted status of a row only ever moves from pending to
\* completed or from pending to failed; a terminal status is never changed.
C1_StatusMonotonic ==
  [][\A i \in Rows :
       scans'[i].status # scans[i].status
         => /\ scans[i].status = "pending"
            /\ scans'[i].status \in {"completed", "failed"}]_vars

\* A row that became failed after earlier update calls of its task rejected.
C1_Witness ==
  \E i \in Rows : scans[i].status = "failed" /\ Len(task[i].upd) >= 2

\* C2 (as claimed): updateScanStatus is invoked at most once per scan id.
C2_AtMostOneUpdateCall == \A i \in ScanIds : Len(task[i].upd) <= 1

\* C2 (amended): a row is written by its createScan and by at most one
\* resolved updateScanStatus call of its own task; a further call for the
\* same scan id is made only after every earlier one rejected (at most 4
\* calls in the axe pipeline, 2 in the Lighthouse pipeline), and a row has
\* left pending exactly when the last call of its own task resolved.
C2_OneResolvedUpdate ==
  \A i \in ScanIds :
    LET u == task[i].upd IN
    /\ \A k \in 1..(Len(u) - 1) : ~u[k]
    /\ Len(u) <= (IF task[i].kind = "lighthouse" THEN 2 ELSE 4)
    /\ task[i].scan.id \in {0, i}
    /\ i \in Rows =>
         (scans[i].status # "pending" <=> (Len(u) > 0 /\ LastOf(u)))

\* An update call that resolved after an earlier call for the same id rejected.
C2_Witness ==
  \E i \in Rows : Len(task[i].upd) >= 2 /\ LastOf(task[i].upd)
                    /\ \E j \in Rows : j # i /\ scans[j].status = "pending"

\* C3: a row's status is pending, completed or failed; a completed row has
\* a report location and a failed row has none.
C3_StatusAndReportUrl ==
  \A i \in Rows :
    /\ scans[i].status \in {"pending", "completed", "failed"}
    /\ scans[i].status = "completed" => scans[i].reportUrl # NULL
    /\ scans[i].status = "failed" => scans[i].reportUrl = NULL
    /\ scans[i].status = "pending" => scans[i].reportUrl = NULL

\* A failed row whose task had produced a report file, next to a completed row.
C3_Witness ==
  \E i, j \in Rows :
    /\ scans[i].status = "failed" /\ task[i].reportErr = "update"
    /\ scans[j].status = "completed"

\* C4: the scan in the body of a 201 response of either handler is pending,
\* has no report location and has a creation time; no other response is
\* sent for a created scan.
C4_ResponseIsPending ==
  \A i \in ScanIds :
    resp[i] # NoResp =>
      /\ resp[i].code = 201
      /\ resp[i].body.status = "pending"
      /\ resp[i].body.reportUrl = NULL
      /\ resp[i].body.createdAt # NoTime
      /\ resp[i].body.id = i

\* Both handlers have answered, and one of the answered scans is terminal by now.
C4_Witness ==
  \E i, j \in Rows :
    /\ resp[i].code = 201 /\ resp[i].scanType = "lighthouse"
    /\ resp[j].code = 201 /\ resp[j].scanType = "undefined"
    /\ scans[j].status = "completed"

\* C5: the 201 response is sent after the pending row exists and before the
\* background task has performed any pipeline step, and what was sent is
\* never changed by the pipeline.
C5_ResponseBeforePipeline ==
  /\ [](\A i \in ScanIds : Started(i) => resp[i].code = 201 /\ i \in Rows)
  /\ [][\A i \in ScanIds :
          /\ resp[i] # NoResp => resp'[i] = resp[i]
          /\ (resp[i] = NoResp /\ resp'[i] # NoResp) =>
               /\ i \in Rows /\ scans[i].status = "pending"
               /\ resp'[i].body = scans[i]
               /\ ~Started(i)
               /\ task'[i].pc \in {"testpage", "fetch", "lh_run"}
               /\ task'[i].results = NoResults
               /\ task'[i].attempts = 0
               /\ task'[i].reportCalls = 0
               /\ task'[i].upd = <<>>]_vars

\* The response still says 201 and pending after the pipeline failed the scan.
C5_Witness ==
  \E i \in Rows :
    /\ scans[i].status = "failed" /\ task[i].pc = "done"
    /\ resp[i].code = 201 /\ resp[i].body.status = "pending"

\* Some call of updateScanStatus by the task of scan i rejected.
UpdateRejected(i) == \E k \in DOMAIN task[i].upd : ~task[i].upd[k]

\* C6: under fair scheduling of its background task every created scan
\* eventually leaves pending, whichever of scan, report generation and report
\* file write fail. (Stated for the tasks whose status updates all resolve:
\* the claim fails already there.)
C6_EventuallyTerminal ==
  \A i \in ScanIds :
    [](i \in Rows =>
         <>(i \in Rows /\ (scans[i].status # "pending" \/ UpdateRejected(i))))

\* C7 (as claimed): a scan of test-sample is never marked failed.
C7_TestSampleNeverFailed ==
  \A i \in Rows :
    (task[i].kind = "axe" /\ scans[i].url = "test-sample")
      => scans[i].status # "failed"

\* C7 (amended): for test-sample a failure of the evaluation never marks the
\* scan failed by itself: the sample result is substituted and generateReport
\* is invoked. The scan is marked failed only after generateReport failed (or
\* the completed update after it rejected) and generateBasicReport then also
\* failed (or the completed update after it rejected); a task whose last
\* update resolved without both of these failures marked the scan completed
\* with a report location.
C7_TestSampleFailsOnlyAfterBothReports ==
  \A i \in Rows :
    (task[i].kind = "axe" /\ scans[i].url = "test-sample") =>
      /\ scans[i].status = "failed" =>
           /\ task[i].reportCalls = 1 /\ task[i].reportErr # "none"
           /\ task[i].basicCalls = 1 /\ task[i].basicErr # "none"
      /\ (task[i].fail.step = "testpage" /\ task[i].pc # "report")
           => task[i].reportCalls = 1
      /\ (task[i].pc = "done" /\ Len(task[i].upd) > 0 /\ LastOf(task[i].upd)
            /\ (task[i].reportErr = "none" \/ task[i].basicErr = "none"))
           => scans[i].status = "completed" /\ scans[i].reportUrl # NULL

\* The evaluation of test-sample threw and the scan was completed all the same.
C7_Witness ==
  \E i \in Rows :
    /\ scans[i].url = "test-sample" /\ task[i].kind = "axe"
    /\ task[i].fail.step = "testpage"
    /\ scans[i].status = "completed"

C10_SampleResultForTestPages ==
  \A i \in ScanIds :
    (task[i].kind = "axe" /\ task[i].url \in {"test", "test-sample", "test-accessible"}
       /\ task[i].fail.step = "testpage" /\ task[i].pc # "done") =>
      LET r == IF task[i].pc = "report" THEN task[i].results ELSE task[i].reportArg
      IN /\ r.present
         /\ Len(r.violations) = 2
         /\ r.violations[1] = [id |-> "image-alt", impact |-> "critical"]
         /\ r.violations[2] = [id |-> "color-contrast", impact |-> "serious"]
         /\ Len(r.passes) = 2
         /\ r.incomplete = <<>>
         /\ r.error = NULL
         /\ task[i].pc # "report" => task[i].reportCalls = 1

\* generateReport has been called for the identifier test after its scan threw.
C10_Witness ==
  \E i \in ScanIds :
    /\ task[i].kind = "axe" /\ task[i].url = "test"
    /\ task[i].fail.step = "testpage"
    /\ task[i].reportCalls = 1 /\ task[i].pc = "upd92"

\* C11 (as claimed): whenever generateReport returned a path, the scan is
\* updated to completed with the location of that file.
C11_ReturnedPathAlwaysCompletes ==
  \A i \in Rows :
    (task[i].kind = "axe" /\ task[i].reportCalls = 1
       /\ task[i].reportErr # "render" /\ task[i].pc = "done")
      => /\ scans[i].status = "completed"
         /\ scans[i].reportUrl[2] = "scan_"

\* C11 (amended): when generateReport returns a path the task's next step is
\* the call updateScanStatus(id, "completed", "/reports/" + basename of that
\* path); if the call resolves the row is completed with exactly that
\* location, and if it rejects the row is left as it was. A report location
\* is only ever stored from the path that the row's own task got back from
\* its own report generation.
C11_CompletedNamesOwnReport ==
  /\ [](\A i \in ScanIds :
          task[i].pc = "upd92" =>
            /\ task[i].reportCalls = 1 /\ task[i].reportErr = "none"
            /\ task[i].reportPath.dir = <<"cwd", "reports">>
            /\ Head(task[i].reportPath.base) = "scan_")
  /\ [][\A i \in Rows :
          /\ (task[i].pc = "report" /\ task'[i].reportPath # NoPath)
               => task'[i].pc = "upd92"
          /\ (task[i].pc = "upd92" /\ task'[i].pc # "upd92") =>
               IF LastOf(task'[i].upd)
               THEN /\ scans'[i].status = "completed"
                    /\ scans'[i].reportUrl = <<"/reports/">> \o task[i].reportPath.base
               ELSE scans'[i] = scans[i] /\ task'[i].pc # "done"
          /\ scans'[i].reportUrl # scans[i].reportUrl =>
               /\ task[i].reportPath # NoPath
               /\ scans'[i].reportUrl = <<"/reports/">> \o task[i].reportPath.base]_vars

\* A row completed with the file of its own generateReport call, made when
\* the clock had advanced.
C11_Witness ==
  \E i \in Rows :
    /\ task[i].kind = "axe" /\ task[i].reportErr = "none" /\ task[i].reportCalls = 1
    /\ scans[i].status = "completed"
    /\ scans[i].reportUrl = <<"/reports/", "scan_", ToString(MaxClock), ".pdf">>

\* C12: captureScreenshot settles by resolving with the base64 text or with
\* null and never by rejecting, whichever of launch, newPage, setViewport,
\* goto, screenshot and close fails.
C12_ScreenshotNeverRejects ==
  \A i \in ScanIds :
    cap[i].pc = "settled" =>
      /\ cap[i].outcome \in {"data", "null"}
      /\ cap[i].outcome = "data" <=> cap[i].ret = base64Screenshot

\* C13 (as claimed): no call of captureScreenshot settles with the browser
\* it launched not closed.
C13_BrowserAlwaysClosed ==
  \A i \in ScanIds :
    cap[i].pc = "settled" => cap[i].browser \in {"none", "closed"}

\* C13 (amended): a call launches at most one browser, and before the call
\* settles browser.close() is called exactly once on a launched browser, on
\* the successful path and after a failure of newPage, setViewport, goto or
\* screenshot alike; the browser is then closed unless close() itself
\* failed. No close is attempted when no browser was launched.
C13_CloseCalledOnEveryPath ==
  \A i \in ScanIds :
    /\ cap[i].launches <= 1
    /\ cap[i].browser = "none" <=> cap[i].launches = 0
    /\ cap[i].closeCalls <= cap[i].launches
    /\ cap[i].browser = "open" => cap[i].pc \notin {"idle", "launch", "settled"}
    /\ cap[i].pc = "settled" =>
         /\ cap[i].closeCalls = cap[i].launches
         /\ cap[i].browser # "open"
         /\ cap[i].browser = "unknown" <=> cap[i].failedAt = "close"
         /\ (cap[i].launches = 1 /\ cap[i].failedAt # "close")
              => cap[i].browser = "closed"

\* One call settled after its navigation failed and its browser was closed,
\* while the other holds a captured image and has its browser still open.
C13_Witness ==
  \E i, j \in ScanIds :
    /\ cap[i].pc = "settled" /\ cap[i].failedAt = "goto"
    /\ cap[i].browser = "closed" /\ cap[i].closeCalls = 1
    /\ cap[j].pc = "close" /\ cap[j].ret = base64Screenshot /\ cap[j].browser = "open"

\* The texts a failed attempt can leave behind.
AttemptErrors ==
  { <<AttemptError(scanner, out, e)>> :
      out \in {o \in FetchOutcomes : ~AttemptOk(scanner, o)}, e \in ErrTexts }

\* C14 (as claimed): a response with an empty body always sends the loop to
\* its next attempt, so the loop never hands on an empty page.
C14_EmptyBodyAlwaysRetried ==
  \A i \in ScanIds : task[i].html # "empty"

\* C14 (amended): the loop makes at most 3 attempts and then stops: a
\* network error or a response that is not 2xx (and, in part_003 only, a 2xx
\* response with an empty body) sends it to the next attempt, or ends it with
\* a failure if that was the third; the first attempt with a 2xx response
\* (in part_003: and a body that is not empty) ends it with the page; and the
\* loop is left for every sequence of attempt outcomes.
C14_AtMostThreeAttempts ==
  /\ [](\A i \in ScanIds :
          /\ task[i].pc = "fetch" => task[i].attempts \in 0..(maxFetchAttempts - 1)
          /\ task[i].html = "empty" => scanner = "part_002"
          /\ task[i].html # "none" <=> task[i].pc = "dom")
  /\ [][\A i \in ScanIds :
          (task[i].pc = "fetch" /\ task'[i] # task[i]) =>
            \/ /\ task'[i].pc = "dom"
               /\ task'[i].html \in {"page", "empty"}
               /\ task'[i].fail = NoFail
            \/ /\ task'[i].pc = "fetch"
               /\ task'[i].attempts = task[i].attempts + 1
               /\ task'[i].attempts < maxFetchAttempts
               /\ task'[i].lastError \in AttemptErrors
            \/ /\ task'[i].pc = "report"
               /\ task[i].attempts = maxFetchAttempts - 1
               /\ task'[i].fail.step = "fetch"]_vars
  /\ \A i \in ScanIds : (task[i].pc = "fetch") ~> (task[i].pc # "fetch")

\* One loop is about to make its third attempt after an empty body, the
\* other has been left without a page.
C14_Witness ==
  \E i, j \in ScanIds :
    /\ task[i].pc = "fetch" /\ task[i].attempts = maxFetchAttempts - 1
    /\ task[i].lastError = <<"Received empty response">>
    /\ task[j].pc = "report" /\ task[j].fail.step = "fetch"

\* C15: when the third attempt fails too, scanWebsite ends with an error
\* whose text carries the message of that third attempt's error, whatever the
\* earlier attempts left behind, and the scan goes on to report generation
\* without a DOM having been built, a rule evaluated or a screenshot started.
C15_ExhaustedCarriesLastError ==
  /\ [](\A i \in ScanIds :
          task[i].fail.step = "fetch" =>
            /\ task[i].pc \notin {"testpage", "fetch", "dom", "axe", "shot"}
            /\ task[i].shotCalls = 0
            /\ task[i].pc # "done" =>
                 /\ task[i].results.error # NULL
                 /\ LastOf(task[i].results.error) = task[i].fail.cause
                 /\ task[i].results.violations = <<>>
                 /\ task[i].results.passes = <<>>)
  /\ [][\A i \in ScanIds :
          /\ (task[i].pc = "fetch" /\ task'[i].pc \notin {"fetch", "dom"}) =>
               /\ task[i].attempts = maxFetchAttempts - 1
               /\ task'[i].pc = "report"
               /\ task'[i].fail.step = "fetch"
               /\ <<task'[i].fail.cause>> \in AttemptErrors
               /\ LastOf(task'[i].results.error) = task'[i].fail.cause
               /\ scanner = "part_002" => task'[i].results.error = <<task'[i].fail.cause>>
          /\ (task'[i].pc = "dom" /\ task[i].pc # "dom") =>
               task[i].pc = "fetch" /\ task'[i].fail = NoFail
          /\ (task'[i].pc = "axe" /\ task[i].pc # "axe") =>
               task[i].pc = "dom" /\ task'[i].fail = NoFail]_vars

\* A scan whose three attempts failed, the last one with a response that was
\* not 2xx, has had its report generated.
C15_Witness ==
  \E i \in Rows :
    /\ task[i].fail = Fail("fetch", HttpErrorMsg(scanner))
    /\ task[i].pc = "upd92" /\ task[i].reportCalls = 1
    /\ LastOf(task[i].reportArg.error) = HttpErrorMsg(scanner)

\* The fixture file of a reserved identifier.
FixtureOf(url) ==
  <<"cwd", "server", "test-pages",
    IF url \in {"test", "test-sample"} THEN "sample.html" ELSE "accessible.html">>

TotalOf(p) == p.critical + p.serious + p.moderate + p.minor + p.unrated

\* C17: generateReport renders exactly one of three documents: for a result
\* with a non-null error the cover and the error explanation only, without
\* summary, findings, passes or recommendations; for missing results the
\* basic document; for any other result the full document.
C17_ThreeRenderModes ==
  doc.pc = "rendered" =>
    CASE ~doc.results.present -> doc.out.mode = "basic"
      [] doc.results.present /\ doc.results.error # NULL ->
           /\ doc.out.mode = "error"
           /\ Len(doc.out.sections) <= 3
           /\ doc.out.level = "none"
           /\ \A k \in DOMAIN doc.out.sections :
                doc.out.sections[k] \notin
                  {"Summary", "Executive Summary", "Accessibility Issues",
                   "Accessibility Violations", "Tests Passed",
                   "Passing Accessibility Tests", "Additional Recommendations",
                   "Next Steps"}
      [] OTHER -> doc.out.mode = "full"

\* C18: the risk level written by part_003 depends on the violation counts
\* only: Low if there is a critical or serious violation or more than 10
\* violations, else Medium if there are more than 5 moderate ones or more
\* than 5 in all, else High. So 12 violations none of them critical or
\* serious give Low, 3 violations of which 1 is moderate and none critical or
\* serious give High, and 6 moderate violations give Medium.
C18_RiskTier ==
  (doc.pc = "rendered" /\ scanner = "part_003" /\ doc.results.present) =>
    LET p == doc.params
        worst == p.critical + p.serious
    IN /\ doc.out.level =
            IF worst > 0 \/ TotalOf(p) > 10 THEN "Low"
            ELSE IF p.moderate > 5 \/ TotalOf(p) > 5 THEN "Medium"
            ELSE "High"
       /\ (TotalOf(p) = 12 /\ worst = 0) => doc.out.level = "Low"
       /\ (TotalOf(p) = 3 /\ p.moderate = 1 /\ worst = 0) => doc.out.level = "High"
       /\ (TotalOf(p) = 6 /\ p.moderate = 6 /\ worst = 0) => doc.out.level = "Medium"

\* Six moderate violations and nothing else were rendered as Medium.
C18_Witness ==
  /\ doc.pc = "rendered" /\ scanner = "part_003"
  /\ doc.params.kind = "result" /\ doc.params.moderate = 6 /\ TotalOf(doc.params) = 6
  /\ doc.out.level = "Medium"

\* C19: for a violation with N example nodes the document has min(N, 3)
\* example lines, then one marker line saying that N - 3 more exist if
\* N > 3, and no marker line if N <= 3 (for nodes that all have html).
C19_ThreeExamplesAndMarker ==
  (doc.pc = "rendered" /\ doc.out.mode = "full" /\ Len(doc.results.violations) > 0
     /\ ~doc.params.noHtml) =>
    LET N == doc.params.nodes
        shown == doc.out.examples[1]
    IN /\ Len(shown.lines) = (IF N < 3 THEN N ELSE 3)
       /\ N > 3 => /\ shown.marker # NULL
                   /\ shown.marker[2] = ToString(N - 3)
       /\ N <= 3 => shown.marker = NULL

\* C20: no two calls of generateReport, generateBasicReport or
\* generateLighthouseReport write to the same file path: the report files
\* that different scans hold at any time are different files.
C20_DistinctReportFiles ==
  \A i, j \in ScanIds :
    (i # j /\ task[i].reportPath # NoPath /\ task[j].reportPath # NoPath)
      => task[i].reportPath # task[j].reportPath

\* C21: a call of generateBasicReport made from the catch of routes.ts 94
\* always returns a report path: it never throws or rejects, whatever the
\* state of the reports directory or of the write stream.
C21_BasicReportNeverFails ==
  \A i \in ScanIds :
    (task[i].basicCalls > 0 /\ task[i].pc # "basic") =>
      /\ task[i].basicErr # "render"
      /\ task[i].pc # "done" => task[i].reportPath # NoPath

\* The scans whose background task exists: created by the handler, running
\* or returned.
Tasks == {i \in ScanIds : task[i].pc # "none"}

\* C22: accepted requests are never merged: every accepted request, also one
\* of the same user for the same URL as an earlier one, appends one new row
\* with a new id and starts one background task for it; and a status update
\* of a task changes the row that task created and leaves the status and the
\* report location of every other row as they were.
C22_ScansDoNotInterfere ==
  /\ [](/\ \A r \in DOMAIN scans : scans[r].id = r
        /\ Cardinality(Tasks) = Len(scans)
        /\ \A i \in Tasks : i \in DOMAIN scans /\ task[i].scan.id = i)
  /\ [][/\ Len(scans') # Len(scans) =>
             /\ Len(scans') = Len(scans) + 1
             /\ \A r \in DOMAIN scans : scans'[r] = scans[r]
             /\ Tasks' = Tasks \cup {Len(scans')}
             /\ Len(scans') \notin Tasks
        /\ \A j \in DOMAIN scans :
             scans'[j] # scans[j] =>
               /\ task[j].pc \in UpdatePcs
               /\ task'[j].upd = Append(task[j].upd, TRUE)
               /\ \A k \in DOMAIN scans : k # j => scans'[k] = scans[k]
               /\ \A k \in ScanIds : k # j => task'[k] = task[k]]_vars

\* Two scans of the same user for the same URL have ended differently: the
\* first is completed with its report, the second failed without one.
C22_Witness ==
  \E i, j \in Rows :
    /\ i # j
    /\ scans[i].url = scans[j].url /\ scans[i].userId = scans[j].userId
    /\ task[i].kind = task[j].kind
    /\ scans[i].status = "completed" /\ scans[i].reportUrl # NULL
    /\ scans[j].status = "failed" /\ scans[j].reportUrl = NULL
    /\ task[i].pc = "done" /\ task[j].pc = "done"

\* C23: a request answered 401 or 400 creates no scan row and starts no
\* background task, and leaves every row and every running task as it was;
\* a request that is not authenticated is answered 401 whether or not its
\* body is valid, and 400 is the answer to an authenticated request with an
\* invalid body only.
C23_RejectedHasNoSideEffect ==
  /\ [](/\ req.code \in {0, 400, 401, 500}
        /\ req.code = 401 <=> (req.kind # "none" /\ ~req.authenticated)
        /\ req.code = 400 <=> (req.authenticated /\ ~req.valid)
        /\ req.code = 500 => (req.authenticated /\ req.valid))
  /\ [][req' # req =>
          /\ req'.code \in {400, 401, 500}
          /\ scans' = scans /\ task' = task /\ resp' = resp]_vars
  /\ [][scans' # scans => req' = req]_vars

\* After one scan was accepted and answered, a request without a session
\* and with an invalid body was answered 401: the table holds the one row.
C23_Witness ==
  /\ req.code = 401 /\ ~req.authenticated /\ ~req.valid
  /\ Len(scans) = 1 /\ resp[1].code = 201 /\ task[1].pc \notin {"none", "created"}

\* C24: with saves of the same and of different users interleaved in any
\* way, a user never has more than one report-settings row, and every save
\* ends with the 200 response that carries that user's row: the first one
\* after inserting it, every other one after updating it; no save is
\* answered with an error.
C24_OneSettingsRowNoFailure ==
  /\ \A u \in SettingsUsers : Cardinality(getReportSettings(settings.rows, u)) <= 1
  /\ \A c \in SaveIds :
       /\ settings.calls[c].pc # "failed"
       /\ settings.calls[c].pc = "returned" =>
            /\ settings.calls[c].code = 200
            /\ settings.calls[c].ret \in getReportSettings(settings.rows, settings.calls[c].userId)

\* C25: no violation of the result is missing from the detailed findings; in
\* the grouped findings of part_003 a violation whose impact is null is in
\* the critical group and is counted among the critical issues of the
\* summary; and a Lighthouse audit whose score is null or 0 is in the
\* findings of generateLighthouseReport with severity critical.
C25_UnratedIsCritical ==
  /\ (doc.pc = "rendered" /\ doc.out.mode = "full") =>
       LET violations == doc.results.violations
           findings == doc.out.findings
           unrated == {k \in DOMAIN violations : violations[k].impact = NoImpact}
       IN /\ \A k \in DOMAIN violations :
               \E f \in DOMAIN findings : findings[f].index = k
          /\ scanner = "part_003" =>
               /\ \A k \in unrated :
                    \E f \in DOMAIN findings :
                      findings[f] = [group |-> "critical", index |-> k]
               /\ doc.out.critical >=
                    Cardinality(unrated) + CountImpact(violations, {"critical"})
  /\ doc.pc = "lh_rendered" =>
       \A a \in DOMAIN doc.results.audits :
         doc.results.audits[a].score \in {NullScore, 0} =>
           \E f \in DOMAIN doc.out.findings :
             doc.out.findings[f] = [group |-> "critical", index |-> doc.results.audits[a].id]

\* The program points of report generation and of the status updates.
ReportingPcs == {"report", "basic", "hung"} \cup UpdatePcs

\* C26: the background task of a scan of a real URL goes through its steps
\* in one order: the fetch loop first, DOM construction only after a fetch
\* succeeded, rule evaluation only after the DOM was built, report
\* generation only after scanWebsite is over, a status update only after a
\* report generation, and the end only after a status update; no step is
\* gone back to. captureScreenshot is called at most once, never before the
\* fetch has succeeded, and is the only thing running beside DOM
\* construction and evaluation; its result is awaited only when the
\* evaluation has produced its result.
C26_StepsInOrder ==
  /\ [](\A i \in ScanIds :
          /\ task[i].shotCalls <= 1
          /\ task[i].shot = "none" <=> task[i].shotCalls = 0
          /\ task[i].pc \in {"none", "created", "testpage", "fetch", "lh_run", "lh_report"}
               => task[i].shot = "none"
          /\ task[i].pc = "shot" =>
               /\ task[i].shot # "none"
               /\ task[i].results \in AxeOutcomes
          /\ task[i].pc \in {"dom", "axe"} => task[i].results = NoResults)
  /\ [][\A i \in ScanIds :
          task'[i].pc # task[i].pc =>
            /\ task'[i].pc = "fetch" => task[i].pc = "created"
            /\ task'[i].pc = "dom" => task[i].pc = "fetch"
            /\ task'[i].pc = "axe" => task[i].pc = "dom"
            /\ task'[i].pc = "shot" => task[i].pc = "axe"
            /\ task'[i].pc = "report" =>
                 /\ task[i].pc \in {"testpage", "fetch", "dom", "axe", "shot"}
                 /\ task[i].pc = "shot" =>
                      /\ task[i].shot = "settled"
                      /\ task'[i].fail = NoFail =>
                           task'[i].results.violations = task[i].results.violations
            /\ task'[i].pc \in ReportingPcs \ {"report"} =>
                 task[i].pc \in ReportingPcs \cup {"lh_report"}
            /\ task'[i].pc = "done" => task[i].pc \in UpdatePcs
            /\ task[i].pc \in ReportingPcs =>
                 task'[i].pc \in (ReportingPcs \ {"report"}) \cup {"done"}]_vars
  /\ [][\A i \in ScanIds :
          task'[i].shot # task[i].shot =>
            \/ /\ task[i].shot = "none" /\ task'[i].shot = "running"
               /\ IF scanner = "part_003"
                  THEN task[i].pc = "fetch" /\ task'[i].pc = "dom"
                  ELSE task[i].pc = "axe" /\ task'[i].pc = "shot"
            \/ /\ task[i].shot = "running" /\ task'[i].shot = "settled"
               /\ task'[i].pc = task[i].pc]_vars

\* In part_003 the screenshot settled while the rules were being evaluated,
\* and the scan then went through report generation to its terminal update.
C26_Witness ==
  \E i \in Rows :
    /\ scanner = "part_003" /\ task[i].kind = "axe" /\ task[i].url = "example.com"
    /\ task[i].shot = "settled" /\ task[i].shotCalls = 1
    /\ task[i].fail = NoFail
    /\ task[i].pc = "done" /\ scans[i].status = "completed"
    /\ \E j \in Rows : task[j].pc = "axe" /\ task[j].shot = "settled"

\* C27: in generateReport of part_002 a violation entry starts on a new page
\* at y = 50 when the cursor is beyond 700 and the passes section when it is
\* beyond 650, and every line of a violation entry (heading, impact,
\* description, up to 3 elements, marker) and of the passes section is then
\* placed at a y position within the 792 points of the page.
C27_NoLinePastPageHeight ==
  /\ doc.section = "violation" => doc.start <= 700
  /\ doc.section = "passes" => doc.start <= 650
  /\ doc.section \in {"violation", "passes"} =>
       \A k \in DOMAIN doc.lines : doc.lines[k] <= PageHeight

\* C28: a row is completed only when the write stream of its report has
\* finished: in the axe pipeline and in the Lighthouse pipeline alike, the
\* updateScanStatus(completed, reportUrl) call is made after the report
\* file has been written completely.
C28_CompletedAfterReportWritten ==
  \A i \in Rows :
    /\ task[i].pc \in CompletedPcs => task[i].file = "finished"
    /\ scans[i].status = "completed" => task[i].file = "finished"

\* C29: a call of runLighthouseScan never throws, and when it has returned
\* it holds nothing: the Chrome instance it launched has been killed, also
\* when the lighthouse run failed, and the temporary JSON file of the CLI
\* implementation has been removed, also when reading or parsing it failed.
C29_LighthouseReleasesAll ==
  \A r \in RunIds :
    lh[r].pc = "returned" =>
      /\ lh[r].ret \in {"results", "error"}
      /\ lh[r].chrome \in {"none", "killed"}
      /\ lh[r].file \in {"none", "removed"}

\* C30: scanWebsite is over (it returned or threw) only when the call of
\* captureScreenshot it made has settled, also when DOM construction or
\* rule evaluation failed after that call was made; so when the status of a
\* scan has become completed or failed, no screenshot task of that scan is
\* still running.
C30_NoScreenshotRunningAtTerminal ==
  \A i \in Rows :
    /\ task[i].pc \in ReportingPcs \cup {"done"} => task[i].shot # "running"
    /\ scans[i].status \in {"completed", "failed"} => task[i].shot # "running"

====
